---- MODULE Spec2Model ----
(***************************************************************************)
(* Model of backend/server.js: the Express handlers of the Psycheverse     *)
(* admin API over its SQLite store.  One action per route; a statement a   *)
(* handler issues without waiting for its callback is queued in `pending`  *)
(* and executed by ExecPending.                                            *)
(*                                                                         *)
(* Column values are SQL values: NULL is <<>> and a non-NULL value x is    *)
(* <<x>>.  Time is counted in ticks of 24 hours.                           *)
(***************************************************************************)
EXTENDS Integers, Sequences, FiniteSets, TLC

\* ---------------------------------------------------------------- bounds
\* Last tick of the clock.
MaxTime == 1
\* Longest `updates` array of a bulk-status request.
MaxBatch == 2
\* Requests served in one behaviour.
MaxRequests == 2

\* ------------------------------------------------------------ SQL values
NULL == <<>>
V(x) == <<x>>
Val(o) == o[1]

\* expiresIn: '24h', in ticks.
TokenTTL == 1

VARIABLES
    now,            \* the clock (CURRENT_TIMESTAMP, Date.now())
    admin_users,    \* table admin_users: id -> row
    creators,       \* table creators: id -> row, over the ids present
    lastID,         \* sqlite_sequence of creators (AUTOINCREMENT)
    subscriptions,  \* table subscriptions: sequence of rows
    analytics,      \* table analytics: sequence of rows, in rowid order
    site_settings,  \* table site_settings: key -> row, over the keys present
    pending,        \* statements issued with no callback waited for
    failedRun,      \* whether the last queued statement to execute failed
    nreq,           \* requests served so far
    req,            \* the last request
    resp            \* the response to it

store == <<admin_users, creators, lastID, subscriptions, analytics, site_settings>>
vars == <<now, admin_users, creators, lastID, subscriptions, analytics,
          site_settings, pending, failedRun, nreq, req, resp>>

\* ------------------------------------------------------------- passwords
hashSync(password) == <<"bcrypt", password>>
compareSync(password, hash) == hashSync(password) = hash

\* ----------------------------------------------------------------- tokens
\* jwt.sign(payload, JWT_SECRET, {expiresIn: '24h'}) at time t.
jwtSign(payload, t) ==
    [sig |-> "JWT_SECRET", id |-> payload.id, username |-> payload.username,
     role |-> payload.role, iat |-> t, exp |-> t + TokenTTL]

\* jwt.verify(token, JWT_SECRET) at time t: the error, or the decoded payload.
jwtVerify(token, t) ==
    IF token.sig # "JWT_SECRET" THEN [err |-> "invalid signature", user |-> token]
    ELSE IF t >= token.exp THEN [err |-> "jwt expired", user |-> token]
    ELSE [err |-> "", user |-> token]

\* The Authorization header: absent, or its words split on ' '.
\* words = 1 is a header of one word; the token is the second word.
NoToken == [sig |-> "", id |-> 0, username |-> "", role |-> "", iat |-> 0, exp |-> 0]
NoHeader == [words |-> 0, token |-> NoToken]

\* authenticateToken without its two early returns.
authenticateTokenNoCheck(hdr, t) ==
    [code |-> 200, error |-> "", user |-> hdr.token]

\* authenticateToken: 401 without a token, 403 when jwt.verify fails,
\* else req.user is the payload and next() runs.
authenticateToken(hdr, t) ==
    LET token == IF hdr.words >= 2 THEN hdr.token ELSE NoToken
    IN  IF hdr.words < 2 \/ token = NoToken
        THEN [code |-> 401, error |-> "Access token required", user |-> NoToken]
        ELSE IF jwtVerify(token, t).err # ""
        THEN [code |-> 403, error |-> "Invalid or expired token", user |-> NoToken]
        ELSE [code |-> 200, error |-> "", user |-> jwtVerify(token, t).user]

\* requireAdmin without its early return.
requireAdminAnyRole(user) == TRUE

\* requireAdmin: next() runs only for role admin or super_admin.
requireAdmin(user) == ~(user.role # "admin" /\ user.role # "super_admin")

\* --------------------------------------------------------------- the seed
\* Row 1 is the default admin the initialisation inserts.  Row 2 stands for a
\* row of the database file ./psycheverse.db written outside this API (the
\* tables are created IF NOT EXISTS, role is free TEXT): a polling agent.
SeedAdmins ==
    (1 :> [username |-> "admin", email |-> "admin@psycheverse.org",
           password_hash |-> hashSync("admin123"), role |-> "super_admin",
           last_login |-> NULL])
    @@
    (2 :> [username |-> "poller", email |-> "poller@psycheverse.org",
           password_hash |-> hashSync("poll456"), role |-> "poller",
           last_login |-> NULL])

AdminIds == DOMAIN SeedAdmins

Payload(uid) ==
    [id |-> uid, username |-> SeedAdmins[uid].username, role |-> SeedAdmins[uid].role]

\* A token the secret did not sign, claiming the super_admin role.
ForgedToken ==
    [sig |-> "guess", id |-> 1, username |-> "admin", role |-> "super_admin",
     iat |-> 0, exp |-> MaxTime + TokenTTL + 1]

\* The headers a client can send at time t: none, a scheme alone, a scheme
\* and an empty word, a forged token, and every token login can have issued
\* up to t.
AllHeaders(t) ==
    {NoHeader, [words |-> 1, token |-> NoToken], [words |-> 2, token |-> NoToken],
     [words |-> 2, token |-> ForgedToken]}
    \cup {[words |-> 2, token |-> jwtSign(Payload(u), i)] : u \in AdminIds, i \in 0..t}

\* No header, and the tokens of the users `uids` issued at t.
FreshHeaders(uids, t) ==
    {NoHeader} \cup {[words |-> 2, token |-> jwtSign(Payload(u), t)] : u \in uids}

\* ------------------------------------------------------------------- JSON
\* A JavaScript value of a `platforms` field is a tagged sequence of strings:
\* <<"str", text>>, <<"arr", item, ...>>, <<"obj">> (the object {}), <<"null">>.
\* Undefined is the absence of the field.
JSONstringify(js) ==
    CASE js = <<"arr">> -> "[]"
      [] js = <<"arr", "yt">> -> "[\"yt\"]"
      [] js = <<"arr", "yt", "tw">> -> "[\"yt\",\"tw\"]"
      [] js = <<"obj">> -> "{}"
      [] js = <<"null">> -> "null"

\* JSON.parse(text): the value, or <<"throw">> for a SyntaxError.
JSONparse(text) ==
    CASE text = "[]" -> <<"arr">>
      [] text = "[\"yt\"]" -> <<"arr", "yt">>
      [] text = "[\"yt\",\"tw\"]" -> <<"arr", "yt", "tw">>
      [] text = "{}" -> <<"obj">>
      [] text = "null" -> <<"null">>
      [] text = "\"yt\"" -> <<"str", "yt">>
      [] OTHER -> <<"throw">>

\* ---------------------------------------------------------------- creators
Cols ==
    {"display_name", "description", "avatar_url", "status", "is_featured",
     "is_paid_member", "featured_priority", "platforms", "viewers",
     "last_live_start", "last_seen", "created_at", "updated_at"}

Has(body, f) == f \in DOMAIN body
\* A parameter bound from a request field: undefined binds NULL.
Bind(body, f) == IF Has(body, f) THEN body[f] ELSE NULL

NoFile == ""
\* req.file.filename of multer's diskStorage: Date.now() + '-' + originalname.
UploadPath(file, t) == <<"/uploads/", t, file>>

\* const platformsJson in POST /api/creators.
platformsJsonCreate(body) ==
    IF Has(body, "platforms") /\ body.platforms[1] = "str"
    THEN body.platforms[2]
    ELSE JSONstringify(IF ~Has(body, "platforms") \/ body.platforms = <<"null">>
                       THEN <<"arr">> ELSE body.platforms)

\* The platforms parameter in PUT /api/creators/:id (the field is supplied).
platformsJsonUpdate(body) ==
    IF body.platforms[1] = "str" THEN body.platforms[2]
    ELSE JSONstringify(body.platforms)

\* The row INSERT INTO creators writes at time t, defaults of the table included.
InsertedRow(body, file, t) ==
    [display_name |-> Bind(body, "display_name"),
     description |-> Bind(body, "description"),
     avatar_url |-> IF file # NoFile THEN V(UploadPath(file, t)) ELSE NULL,
     status |-> V("offline"),
     is_featured |-> IF Has(body, "is_featured") THEN body.is_featured ELSE V(0),
     is_paid_member |-> IF Has(body, "is_paid_member") THEN body.is_paid_member ELSE V(0),
     featured_priority |->
         IF Has(body, "featured_priority") THEN body.featured_priority ELSE V(0),
     platforms |-> V(platformsJsonCreate(body)),
     viewers |-> V(0),
     last_live_start |-> NULL,
     last_seen |-> NULL,
     created_at |-> V(t),
     updated_at |-> V(t)]

\* UpdatedRow without the `!== undefined` test of description: the column is
\* written whether or not the request supplies it.
UpdatedRowOverwrite(row, body, file, t) ==
    [c \in Cols |->
        CASE c = "updated_at" -> V(t)
          [] c = "avatar_url" -> IF file # NoFile THEN V(UploadPath(file, t)) ELSE row[c]
          [] c = "platforms" -> IF Has(body, c) THEN V(platformsJsonUpdate(body)) ELSE row[c]
          [] c \in {"display_name", "status", "is_featured", "is_paid_member",
                    "featured_priority", "viewers"} ->
                IF Has(body, c) THEN body[c] ELSE row[c]
          [] c = "description" -> Bind(body, c)
          [] OTHER -> row[c]]

\* The row UPDATE creators SET <updateFields> of PUT /api/creators/:id leaves.
UpdatedRow(row, body, file, t) ==
    [c \in Cols |->
        CASE c = "updated_at" -> V(t)
          [] c = "avatar_url" -> IF file # NoFile THEN V(UploadPath(file, t)) ELSE row[c]
          [] c = "platforms" -> IF Has(body, c) THEN V(platformsJsonUpdate(body)) ELSE row[c]
          [] c \in {"display_name", "description", "status", "is_featured",
                    "is_paid_member", "featured_priority", "viewers"} ->
                IF Has(body, c) THEN body[c] ELSE row[c]
          [] OTHER -> row[c]]

\* StatusRow without the `status !== 'offline'` test: last_seen is stamped
\* whatever the status.
StatusRowAlwaysSeen(row, body, t) ==
    [c \in Cols |->
        CASE c = "status" -> Bind(body, "status")
          [] c = "updated_at" -> V(t)
          [] c = "viewers" -> IF Has(body, "viewers") THEN body.viewers ELSE row[c]
          [] c = "last_live_start" ->
                IF Bind(body, "status") = V("live") /\ Has(body, "live_start")
                   /\ body.live_start \notin {NULL, V("")}
                THEN body.live_start ELSE row[c]
          [] c = "last_seen" -> V(t)
          [] OTHER -> row[c]]

\* The row UPDATE creators SET <updateFields> of POST /api/creators/:id/status leaves.
StatusRow(row, body, t) ==
    [c \in Cols |->
        CASE c = "status" -> Bind(body, "status")
          [] c = "updated_at" -> V(t)
          [] c = "viewers" -> IF Has(body, "viewers") THEN body.viewers ELSE row[c]
          [] c = "last_live_start" ->
                IF Bind(body, "status") = V("live") /\ Has(body, "live_start")
                   /\ body.live_start \notin {NULL, V("")}
                THEN body.live_start ELSE row[c]
          [] c = "last_seen" ->
                IF Bind(body, "status") # V("offline") THEN V(t) ELSE row[c]
          [] OTHER -> row[c]]

\* update.viewers || 0
\* ViewersOrZero without the `|| 0`.
ViewersUnbound(update) == Bind(update, "viewers")

\* update.viewers || 0
ViewersOrZero(update) ==
    IF Has(update, "viewers") /\ update.viewers \notin {NULL, V(0)}
    THEN update.viewers ELSE V(0)

\* BulkRow without last_seen = CURRENT_TIMESTAMP.
BulkRowNotSeen(row, update, t) ==
    [row EXCEPT !.status = Bind(update, "status"),
                !.viewers = ViewersOrZero(update),
                !.updated_at = V(t)]

\* The row one run of the prepared statement of bulk-status leaves.
BulkRow(row, update, t) ==
    [row EXCEPT !.status = Bind(update, "status"),
                !.viewers = ViewersOrZero(update),
                !.last_seen = V(t),
                !.updated_at = V(t)]

\* `if (creator.platforms)`: the column is neither NULL nor the empty string.
Truthy(col) == col # NULL /\ col # V("")

\* JSON.parse in try/catch, [] on a SyntaxError.
ParseOrEmpty(col) ==
    IF JSONparse(Val(col)) = <<"throw">> THEN <<"arr">> ELSE JSONparse(Val(col))

\* The platforms value GET /api/creators puts in each row of its answer.
PlatformsInList(col) == IF Truthy(col) THEN ParseOrEmpty(col) ELSE <<"arr">>

\* The platforms value GET /api/creators/:id and the export put in a row:
\* without the else branch the column is answered as stored.
PlatformsInGet(col) ==
    IF Truthy(col) THEN ParseOrEmpty(col)
    ELSE IF col = NULL THEN <<"null">> ELSE <<"str", Val(col)>>

RowInList(row) == [row EXCEPT !.platforms = PlatformsInList(row.platforms)]
RowInGet(row) == [row EXCEPT !.platforms = PlatformsInGet(row.platforms)]

\* ------------------------------------------------------------ the requests
\* The ids clients put in a path or a batch: the first rowids and one that
\* names no row.
RequestIds == {1, 2, 999}

\* A request: the multipart fields and the avatar file, if any.
Form(body, file) == [body |-> body, file |-> file]

CreateForms ==
    {Form([display_name |-> V("B")], NoFile),
     Form([display_name |-> V("B"), platforms |-> <<"arr", "yt">>, is_featured |-> V(1)],
          "a.png"),
     Form([display_name |-> V("A"), platforms |-> <<"str", "">>], NoFile),
     Form([display_name |-> V("B"), platforms |-> <<"str", "{}">>], NoFile),
     Form([description |-> V("d")], NoFile)}

UpdateForms ==
    {Form([status |-> V("live")], NoFile),
     Form([display_name |-> V("B"), description |-> V("d"), is_featured |-> V(1),
           is_paid_member |-> V(1), featured_priority |-> V(1), viewers |-> V(5)], NoFile),
     Form([platforms |-> <<"str", "yt,tw">>], "b.png"),
     Form([platforms |-> <<"null">>], NoFile),
     Form([platforms |-> <<"arr", "yt", "tw">>, description |-> NULL], NoFile),
     Form([display_name |-> NULL], NoFile),
     Form(<<>>, NoFile)}

StatusBodies ==
    {[status |-> V("offline")],
     [status |-> V("live"), viewers |-> V(10), live_start |-> V("T")],
     [status |-> V("live")],
     [status |-> V("away"), live_start |-> V("T")]}

\* The updates of a polling agent: the batch grows in this order.
BulkItem(i) ==
    CASE i % 3 = 1 -> [id |-> 1, status |-> V("live"), viewers |-> V(5)]
      [] i % 3 = 2 -> [id |-> 999, status |-> V("live")]
      [] OTHER -> [id |-> 1, status |-> V("offline")]

\* req.body.updates: an array of updates, or something that is no array.
NotAnArray == <<[id |-> 0, status |-> V("not-an-array")]>>
BulkPayloads ==
    {[i \in 1..n |-> BulkItem(i)] : n \in 0..MaxBatch}
    \cup {<<BulkItem(3)>>, NotAnArray}
IsArray(updates) == updates # NotAnArray

\* req.body of PUT /api/settings, as Object.entries lists it.
\* The bodies of PUT /api/settings, as Object.entries lists them: the values
\* are JSON strings, numbers, booleans and null.
SettingsBodies ==
    {<<[key |-> "site_title", value |-> <<"str", "Psycheverse">>]>>,
     <<[key |-> "featured_slots", value |-> <<"num", 8>>],
       [key |-> "theme", value |-> <<"str", "dark">>]>>,
     <<[key |-> "auto_approve_free", value |-> <<"bool", TRUE>>]>>,
     <<[key |-> "theme", value |-> <<"null">>]>>,
     <<>>}

ListQueries ==
    {<<>>, [status |-> "live"], [featured |-> "true"], [search |-> "a", limit |-> 1]}

Logins ==
    {[username |-> u, password |-> p] :
        u \in {"admin", "poller@psycheverse.org", "nobody"},
        p \in {"admin123", "poll456"}}

\* One request of each kind, each one changing the store when it is served.
OneOfEach ==
    [headers |-> [t \in 0..MaxTime |-> FreshHeaders({1}, t)],
     faults |-> {FALSE},
     ids |-> {1},
     logins |-> {[username |-> "admin", password |-> "admin123"]},
     creates |-> {Form([display_name |-> V("B")], NoFile)},
     updates |-> {Form([status |-> V("live")], NoFile)},
     statuses |-> {[status |-> V("live"), viewers |-> V(10), live_start |-> V("T")]},
     bulks |-> {<<[id |-> 1, status |-> V("live"), viewers |-> V(5)]>>},
     settings |-> {<<[key |-> "site_title", value |-> <<"str", "Psycheverse">>]>>},
     queries |-> {<<>>}]

\* The clients of the auth gate: every header and every login.
AuthClients ==
    [OneOfEach EXCEPT !.headers = [t \in 0..MaxTime |-> AllHeaders(t)],
                      !.logins = Logins,
                      !.faults = BOOLEAN]

\* The clients of the creator registry: every form, id and query.
RegistryClients ==
    [OneOfEach EXCEPT !.faults = BOOLEAN,
                      !.ids = RequestIds,
                      !.creates = CreateForms,
                      !.updates = UpdateForms,
                      !.queries = ListQueries]

\* The clients of the status route: an admin sending every status body.
StatusClients ==
    [OneOfEach EXCEPT !.faults = BOOLEAN,
                      !.ids = {1, 999},
                      !.statuses = StatusBodies]

\* The clients of the settings routes: an admin sending every settings body.
SettingsClients ==
    [OneOfEach EXCEPT !.faults = BOOLEAN,
                      !.settings = SettingsBodies]

\* A batch addressed to two creators, and a batch that names one twice.
BatchPayloads ==
    {<<[id |-> 1, status |-> V("live"), viewers |-> V(5)],
       [id |-> 2, status |-> V("live"), viewers |-> V(7)]>>,
     <<[id |-> 2, status |-> V("live"), viewers |-> V(7)],
       [id |-> 2, status |-> V("offline")]>>}

\* The clients around a batch: a polling agent sending batches, readers and
\* an admin who may delete a creator meanwhile.
BatchClients ==
    [OneOfEach EXCEPT !.ids = {2},
                      !.bulks = BatchPayloads]

\* Single updates of creator 1 with viewers omitted, zero and null.
SparsePayloads ==
    {<<[id |-> 1, status |-> V("offline")]>>,
     <<[id |-> 1, status |-> V("live")]>>,
     <<[id |-> 1, status |-> V("live"), viewers |-> V(0)]>>,
     <<[id |-> 1, status |-> V("away"), viewers |-> NULL]>>}

\* The clients of the two status paths: the same changes sent to each.
PathsClients ==
    [OneOfEach EXCEPT !.statuses = StatusBodies,
                      !.bulks = SparsePayloads]

\* The clients of the bulk route: an admin and a polling agent.
BulkClients ==
    [OneOfEach EXCEPT !.headers = [t \in 0..MaxTime |-> FreshHeaders({1, 2}, t)],
                      !.ids = {1, 999},
                      !.bulks = BulkPayloads]

\* ------------------------------------------------------------------- Init
\* A row of site_settings.
SettingRow(value, t) == [value |-> value, updated_at |-> t]

\* The decimal text of a number, as SQLite casts an INTEGER to TEXT.
NumberText(n) ==
    LET digit(d) == CASE d = 0 -> "0" [] d = 1 -> "1" [] d = 2 -> "2" [] d = 3 -> "3"
                      [] d = 4 -> "4" [] d = 5 -> "5" [] d = 6 -> "6" [] d = 7 -> "7"
                      [] d = 8 -> "8" [] d = 9 -> "9"
    IN  IF n < 10 THEN digit(n) ELSE digit(n \div 10) \o digit(n % 10)

\* SqlText with a boolean stored as the text JavaScript prints it as.
SqlTextAsPrinted(js) ==
    CASE js[1] = "str" -> V(js[2])
      [] js[1] = "num" -> V(NumberText(js[2]))
      [] js[1] = "bool" -> V(IF js[2] THEN "true" ELSE "false")
      [] js[1] = "null" -> NULL

\* What a JSON value bound to the `value TEXT` column is stored as: a string
\* as itself, a number as its text, a boolean as the text of the integer it
\* is bound as, null as NULL.
SqlText(js) ==
    CASE js[1] = "str" -> V(js[2])
      [] js[1] = "num" -> V(NumberText(js[2]))
      [] js[1] = "bool" -> V(IF js[2] THEN "1" ELSE "0")
      [] js[1] = "null" -> NULL

\* settingsObj: the object GET /api/settings builds from the rows.
settingsObj(rows) ==
    [k \in DOMAIN rows |->
        IF rows[k].value = NULL THEN <<"null">> ELSE <<"str", Val(rows[k].value)>>]

DefaultSettings ==
    [site_title |-> SettingRow(V("Psycheverse Admin"), 0),
     featured_slots |-> SettingRow(V("4"), 0),
     subscription_price |-> SettingRow(V("1999"), 0),
     auto_approve_free |-> SettingRow(V("false"), 0),
     max_free_listings |-> SettingRow(V("50"), 0)]

\* A subscription row the Stripe webhook (outside this file) has written.
StripeRow ==
    [creator_id |-> V(1), stripe_subscription_id |-> "sub_1", status |-> "active",
     amount |-> V(1999), created_at |-> 0]

NoRequest == [op |-> "none"]

\* The server starts on the database file it finds: a new one, which holds
\* the seed alone, or the file of an earlier run, which here holds one creator
\* that run created and a subscription to it.
Init ==
    /\ now = 0
    /\ admin_users = SeedAdmins
    /\ \/ /\ creators = <<>>
          /\ lastID = 0
          /\ subscriptions = <<>>
       \/ /\ creators = (1 :> InsertedRow([display_name |-> V("A"),
                                           platforms |-> <<"arr", "yt">>], NoFile, 0))
          /\ lastID = 1
          /\ subscriptions = <<StripeRow>>
    /\ analytics = <<>>
    /\ site_settings = DefaultSettings
    /\ pending = <<>>
    /\ failedRun = FALSE
    /\ nreq = 0
    /\ req = NoRequest
    /\ resp = [code |-> 0, body |-> <<>>]

\* The state at the start of a run over the database of an earlier run that
\* holds two creators.
InitTwoCreators ==
    /\ now = 0
    /\ admin_users = SeedAdmins
    /\ creators = (1 :> InsertedRow([display_name |-> V("A")], NoFile, 0))
                  @@ (2 :> InsertedRow([display_name |-> V("B")], NoFile, 0))
    /\ lastID = 2
    /\ subscriptions = <<StripeRow>>
    /\ analytics = <<>>
    /\ site_settings = DefaultSettings
    /\ pending = <<>>
    /\ failedRun = FALSE
    /\ nreq = 0
    /\ req = NoRequest
    /\ resp = [code |-> 0, body |-> <<>>]

\* ---------------------------------------------------------------- routing
\* The middleware chain of a route: authenticateToken, then requireAdmin on
\* the routes that name it.
Gate(hdr, admin) ==
    LET a == authenticateToken(hdr, now)
    IN  IF a.code # 200 THEN a
        ELSE IF admin /\ ~requireAdmin(a.user)
        THEN [code |-> 403, error |-> "Admin access required", user |-> a.user]
        ELSE a

\* res.status(code).json(body) ends the request r.
Served(r, code, body) ==
    /\ req' = r
    /\ resp' = [code |-> code, body |-> body]
    /\ nreq' = nreq + 1
    /\ UNCHANGED failedRun

Refused(r, g) ==
    /\ Served(r, g.code, [error |-> g.error])
    /\ UNCHANGED <<now, store, pending>>

Failed(r, code, error) ==
    /\ Served(r, code, [error |-> error])
    /\ UNCHANGED <<now, store, pending>>

\* The clock advances.
Tick ==
    /\ now < MaxTime
    /\ now' = now + 1
    /\ UNCHANGED <<store, pending, failedRun, nreq, req, resp>>

\* A handler past the gate sees the clients' whole set; a refused request is
\* sent with one value, which the middleware never reads.
Menu(g, full, probe) == IF g.code = 200 THEN full ELSE {probe}

\* --------------------------------------------------------- queued statements
\* A job is the queue of one Statement object: its runs execute in order.
\* Jobs of different statements execute in any order.
Stmt(k, id, data) == [k |-> k, id |-> id, data |-> data]

\* The analytics row INSERT INTO analytics writes at time t.
EventRow(stmt, t) ==
    [event_type |-> "status_change", event_data |-> stmt.data,
     creator_id |-> stmt.id, timestamp |-> t]

\* InsertAnalytics as INSERT OR REPLACE on one rowid: the new event takes the
\* place of the log.
InsertAnalyticsReplacing(log, stmt, t) == <<EventRow(stmt, t)>>

\* INSERT INTO analytics: the table with the new row after its last.
InsertAnalytics(log, stmt, t) == Append(log, EventRow(stmt, t))

\* What is left of the queue once the first run of job j is taken off.
Dequeued(j) ==
    IF Len(pending[j]) = 1
    THEN SubSeq(pending, 1, j - 1) \o SubSeq(pending, j + 1, Len(pending))
    ELSE [pending EXCEPT ![j] = Tail(pending[j])]

\* The store executes the next run of a queued statement; when it fails
\* there is no callback to report it to.
ExecPending ==
    \E j \in 1..Len(pending), fails \in BOOLEAN :
        LET stmt == Head(pending[j])
        IN  /\ pending' = Dequeued(j)
            /\ failedRun' = fails
            /\ IF fails THEN UNCHANGED store
               ELSE CASE stmt.k = "last_login" ->
                         /\ admin_users' =
                                [admin_users EXCEPT ![stmt.id].last_login = V(now)]
                         /\ UNCHANGED <<creators, lastID, subscriptions, analytics,
                                        site_settings>>
                      [] stmt.k = "event" ->
                         /\ analytics' = InsertAnalytics(analytics, stmt, now)
                         /\ UNCHANGED <<admin_users, creators, lastID, subscriptions,
                                        site_settings>>
                      [] stmt.k = "bulk" ->
                         /\ creators' =
                                IF stmt.id \in DOMAIN creators
                                THEN [creators EXCEPT
                                         ![stmt.id] = BulkRow(creators[stmt.id], stmt.data, now)]
                                ELSE creators
                         /\ UNCHANGED <<admin_users, lastID, subscriptions, analytics,
                                        site_settings>>
                      [] stmt.k = "setting" ->
                         /\ site_settings' =
                                (stmt.data.key :> SettingRow(SqlText(stmt.data.value), now))
                                    @@ site_settings
                         /\ UNCHANGED <<admin_users, creators, lastID, subscriptions,
                                        analytics>>
            /\ UNCHANGED <<now, nreq, req, resp>>

\* ------------------------------------------------------------------- auth
\* LoginResponse answering the row itself as the user.
LoginResponseWholeRow(uid, user, t) ==
    [token |-> jwtSign([id |-> uid, username |-> user.username, role |-> user.role], t),
     user |-> user]

\* The body of a successful login: the signed token and the public fields.
LoginResponse(uid, user, t) ==
    [token |-> jwtSign([id |-> uid, username |-> user.username, role |-> user.role], t),
     user |-> [id |-> uid, username |-> user.username, email |-> user.email,
               role |-> user.role]]

\* POST /api/auth/login
Login(M) ==
    /\ nreq < MaxRequests
    /\ \E body \in M.logins, dberr \in M.faults :
        LET r == [op |-> "login", body |-> body, dberr |-> dberr]
            found == {u \in DOMAIN admin_users :
                         \/ admin_users[u].username = body.username
                         \/ admin_users[u].email = body.username}
        IN  IF dberr THEN Failed(r, 500, "Database error")
            ELSE IF found = {} THEN Failed(r, 401, "Invalid credentials")
            ELSE \E u \in found :
                    IF ~compareSync(body.password, admin_users[u].password_hash)
                    THEN Failed(r, 401, "Invalid credentials")
                    ELSE /\ pending' = Append(pending, <<Stmt("last_login", u, [set |-> "last_login"])>>)
                         /\ Served(r, 200, LoginResponse(u, admin_users[u], now))
                         /\ UNCHANGED <<now, store>>

\* GET /api/auth/verify
Verify(M) ==
    /\ nreq < MaxRequests
    /\ \E hdr \in M.headers[now] :
        LET g == Gate(hdr, FALSE)
            r == [op |-> "verify", hdr |-> hdr]
        IN  IF g.code # 200 THEN Refused(r, g)
            ELSE /\ Served(r, 200, [user |-> g.user])
                 /\ UNCHANGED <<now, store, pending>>

\* --------------------------------------------------------------- creators
\* GET /api/creators/:id
GetCreator(M) ==
    /\ nreq < MaxRequests
    /\ \E hdr \in M.headers[now] :
        LET g == Gate(hdr, FALSE)
        IN  \E id \in Menu(g, M.ids, 1), dberr \in Menu(g, M.faults, FALSE) :
            LET r == [op |-> "get", hdr |-> hdr, id |-> id, dberr |-> dberr]
            IN  IF g.code # 200 THEN Refused(r, g)
                ELSE IF dberr THEN Failed(r, 500, "Database error")
                ELSE IF id \notin DOMAIN creators THEN Failed(r, 404, "Creator not found")
                ELSE /\ Served(r, 200, RowInGet(creators[id]))
                     /\ UNCHANGED <<now, store, pending>>

\* POST /api/creators
CreateCreator(M) ==
    /\ nreq < MaxRequests
    /\ \E hdr \in M.headers[now] :
        LET g == Gate(hdr, TRUE)
        IN  \E form \in Menu(g, M.creates, Form([display_name |-> V("B")], NoFile)),
               dberr \in Menu(g, M.faults, FALSE) :
            LET r == [op |-> "create", hdr |-> hdr, body |-> form.body,
                      file |-> form.file, dberr |-> dberr]
            IN  IF g.code # 200 THEN Refused(r, g)
                \* a storage failure, or NOT NULL of display_name
                ELSE IF dberr \/ Bind(form.body, "display_name") = NULL
                THEN Failed(r, 500, "Database error")
                ELSE /\ lastID' = lastID + 1
                     /\ creators' =
                            (lastID' :> InsertedRow(form.body, form.file, now)) @@ creators
                     /\ Served(r, 200, [id |-> lastID',
                                        message |-> "Creator created successfully"])
                     /\ UNCHANGED <<now, admin_users, subscriptions, analytics,
                                    site_settings, pending>>

\* PUT /api/creators/:id
UpdateCreator(M) ==
    /\ nreq < MaxRequests
    /\ \E hdr \in M.headers[now] :
        LET g == Gate(hdr, TRUE)
        IN  \E id \in Menu(g, M.ids, 1),
               form \in Menu(g, M.updates, Form([status |-> V("live")], NoFile)),
               dberr \in Menu(g, M.faults, FALSE) :
            LET r == [op |-> "update", hdr |-> hdr, id |-> id, body |-> form.body,
                      file |-> form.file, dberr |-> dberr]
            IN  IF g.code # 200 THEN Refused(r, g)
                ELSE IF dberr THEN Failed(r, 500, "Database error")
                ELSE IF id \notin DOMAIN creators THEN Failed(r, 404, "Creator not found")
                \* NOT NULL of display_name
                ELSE IF UpdatedRow(creators[id], form.body, form.file, now).display_name = NULL
                THEN Failed(r, 500, "Database error")
                ELSE /\ creators' =
                            [creators EXCEPT
                                ![id] = UpdatedRow(creators[id], form.body, form.file, now)]
                     /\ Served(r, 200, [message |-> "Creator updated successfully"])
                     /\ UNCHANGED <<now, admin_users, lastID, subscriptions, analytics,
                                    site_settings, pending>>

\* RowsAfterDelete without the WHERE clause.
RowsAfterDeleteAll(rows, id) == <<>>

\* The creators table after DELETE FROM creators WHERE id = ?.
RowsAfterDelete(rows, id) == [i \in DOMAIN rows \ {id} |-> rows[i]]

\* DELETE /api/creators/:id
DeleteCreator(M) ==
    /\ nreq < MaxRequests
    /\ \E hdr \in M.headers[now] :
        LET g == Gate(hdr, TRUE)
        IN  \E id \in Menu(g, M.ids, 1), dberr \in Menu(g, M.faults, FALSE) :
            LET r == [op |-> "delete", hdr |-> hdr, id |-> id, dberr |-> dberr]
            IN  IF g.code # 200 THEN Refused(r, g)
                ELSE IF dberr THEN Failed(r, 500, "Database error")
                ELSE IF id \notin DOMAIN creators THEN Failed(r, 404, "Creator not found")
                ELSE /\ creators' = RowsAfterDelete(creators, id)
                     /\ Served(r, 200, [message |-> "Creator deleted successfully"])
                     /\ UNCHANGED <<now, admin_users, lastID, subscriptions, analytics,
                                    site_settings, pending>>

\* EventData with the status alone.
EventDataStatusOnly(body) == [f \in DOMAIN body \cap {"status"} |-> body[f]]

\* JSON.stringify({ status, viewers }): an undefined member is left out.
EventData(body) == [f \in DOMAIN body \cap {"status", "viewers"} |-> body[f]]

\* POST /api/creators/:id/status
SetStatus(M) ==
    /\ nreq < MaxRequests
    /\ \E hdr \in M.headers[now] :
        LET g == Gate(hdr, TRUE)
        IN  \E id \in Menu(g, M.ids, 1),
               body \in Menu(g, M.statuses, [status |-> V("live")]),
               dberr \in Menu(g, M.faults, FALSE) :
            LET r == [op |-> "status", hdr |-> hdr, id |-> id, body |-> body,
                      dberr |-> dberr]
            IN  IF g.code # 200 THEN Refused(r, g)
                ELSE IF dberr THEN Failed(r, 500, "Database error")
                ELSE /\ creators' =
                            IF id \in DOMAIN creators
                            THEN [creators EXCEPT ![id] = StatusRow(creators[id], body, now)]
                            ELSE creators
                     /\ pending' = Append(pending, <<Stmt("event", id, EventData(body))>>)
                     /\ Served(r, 200, [message |-> "Status updated successfully"])
                     /\ UNCHANGED <<now, admin_users, lastID, subscriptions, analytics,
                                    site_settings>>

\* BulkJob with stmt.run called once, after the loop's first element.
BulkJobFirstOnly(updates) == <<Stmt("bulk", updates[1].id, updates[1])>>

\* The runs stmt.run queues for the updates, in order.
BulkJob(updates) == [i \in 1..Len(updates) |-> Stmt("bulk", updates[i].id, updates[i])]

\* POST /api/creators/bulk-status
BulkStatus(M) ==
    /\ nreq < MaxRequests
    /\ \E hdr \in M.headers[now] :
        LET g == Gate(hdr, FALSE)
        IN  \E updates \in Menu(g, M.bulks, <<[id |-> 1, status |-> V("live")]>>) :
            LET r == [op |-> "bulk", hdr |-> hdr, updates |-> updates]
            IN  IF g.code # 200 THEN Refused(r, g)
                ELSE IF ~IsArray(updates) THEN Failed(r, 400, "Updates must be an array")
                ELSE /\ pending' = IF updates = <<>> THEN pending
                                   ELSE Append(pending, BulkJob(updates))
                     /\ Served(r, 200, [message |-> "Updated creators",
                                        count |-> Len(updates)])
                     /\ UNCHANGED <<now, store>>

\* ------------------------------------------------------------------ reads
\* A column as a sort key: NULL sorts below every value.
Ord(col) == IF col = NULL THEN 0 - 1 ELSE Val(col)

\* The orders in which a SELECT may answer the rows `ids` when Before(a, b)
\* says a must precede b; rows the ORDER BY ties may come either way round.
Orderings(ids, Before(_, _)) ==
    {s \in [1..Cardinality(ids) -> ids] :
        /\ \A i, j \in DOMAIN s : i # j => s[i] # s[j]
        /\ \A i, j \in DOMAIN s : i < j => ~Before(s[j], s[i])}

\* ORDER BY is_featured DESC, featured_priority DESC, last_seen DESC
ListBefore(a, b) ==
    LET ka == <<Ord(creators[a].is_featured), Ord(creators[a].featured_priority),
                Ord(creators[a].last_seen)>>
        kb == <<Ord(creators[b].is_featured), Ord(creators[b].featured_priority),
                Ord(creators[b].last_seen)>>
    IN  \/ ka[1] > kb[1]
        \/ ka[1] = kb[1] /\ ka[2] > kb[2]
        \/ ka[1] = kb[1] /\ ka[2] = kb[2] /\ ka[3] > kb[3]

\* The collation of the display names the clients use.
NameRank(col) == CASE col = V("A") -> 1 [] col = V("B") -> 2 [] OTHER -> 0

\* ORDER BY is_featured DESC, display_name ASC
ExportBefore(a, b) ==
    \/ Ord(creators[a].is_featured) > Ord(creators[b].is_featured)
    \/ /\ Ord(creators[a].is_featured) = Ord(creators[b].is_featured)
       /\ NameRank(creators[a].display_name) < NameRank(creators[b].display_name)

\* text LIKE '%pattern%' for the one-letter texts the clients use: the match
\* ignores case; NULL matches nothing.
Lower(text) == CASE text = "A" -> "a" [] text = "B" -> "b" [] OTHER -> text
Like(col, pattern) == col # NULL /\ Lower(Val(col)) = Lower(pattern)

\* limit = 50 when the query gives none.
DefaultLimit == 50

\* The WHERE clause GET /api/creators builds from the query q.
ListWhere(row, q) ==
    /\ Has(q, "status") => row.status = V(q.status)
    /\ Has(q, "featured") =>
           row.is_featured = V(IF q.featured = "true" THEN 1 ELSE 0)
    /\ Has(q, "search") => Like(row.display_name, q.search) \/ Like(row.description, q.search)

\* LIMIT ? OFFSET ?
Page(rows, q) ==
    LET limit == IF Has(q, "limit") THEN q.limit ELSE DefaultLimit
        offset == IF Has(q, "offset") THEN q.offset ELSE 0
        last == IF offset + limit < Len(rows) THEN offset + limit ELSE Len(rows)
    IN  SubSeq(rows, offset + 1, last)

Answered(id, row) == [id |-> id, row |-> row]

\* GET /api/creators
ListCreators(M) ==
    /\ nreq < MaxRequests
    /\ \E hdr \in M.headers[now] :
        LET g == Gate(hdr, FALSE)
        IN  \E q \in Menu(g, M.queries, <<>>), dberr \in Menu(g, M.faults, FALSE) :
            LET r == [op |-> "list", hdr |-> hdr, query |-> q, dberr |-> dberr]
                ids == {i \in DOMAIN creators : ListWhere(creators[i], q)}
            IN  IF g.code # 200 THEN Refused(r, g)
                ELSE IF dberr THEN Failed(r, 500, "Database error")
                ELSE \E s \in Orderings(ids, ListBefore) :
                        /\ Served(r, 200,
                                  Page([k \in DOMAIN s |->
                                           Answered(s[k], RowInList(creators[s[k]]))], q))
                        /\ UNCHANGED <<now, store, pending>>

\* GET /api/export/creators
ExportCreators(M) ==
    /\ nreq < MaxRequests
    /\ \E hdr \in M.headers[now] :
        LET g == Gate(hdr, TRUE)
        IN  \E dberr \in Menu(g, M.faults, FALSE) :
            LET r == [op |-> "export", hdr |-> hdr, dberr |-> dberr]
            IN  IF g.code # 200 THEN Refused(r, g)
                ELSE IF dberr THEN Failed(r, 500, "Database error")
                ELSE \E s \in Orderings(DOMAIN creators, ExportBefore) :
                        /\ Served(r, 200,
                                  [k \in DOMAIN s |->
                                      Answered(s[k], RowInGet(creators[s[k]]))])
                        /\ UNCHANGED <<now, store, pending>>

\* GET /api/subscriptions: the SELECT names c.email, a column the creators
\* table does not have, so the statement is an error whatever the store holds.
Subscriptions(M) ==
    /\ nreq < MaxRequests
    /\ \E hdr \in M.headers[now] :
        LET g == Gate(hdr, TRUE)
            r == [op |-> "subscriptions", hdr |-> hdr]
        IN  IF g.code # 200 THEN Refused(r, g)
            ELSE Failed(r, 500, "Database error")

\* SUM(x) of SQL over a table's values: NULL values do not count, and the
\* sum of no value at all is NULL.
RECURSIVE Total(_)
Total(vals) ==
    IF vals = <<>> THEN 0 ELSE Val(Head(vals)) + Total(Tail(vals))

SqlSum(vals) ==
    LET given == SelectSeq(vals, LAMBDA v : v # NULL)
    IN  IF given = <<>> THEN NULL ELSE V(Total(given))

RECURSIVE SeqOf(_, _)
\* The values f[i] of the rows i of S, as a sequence.
SeqOf(S, f) ==
    IF S = {} THEN <<>>
    ELSE LET i == CHOOSE x \in S : TRUE IN <<f[i]>> \o SeqOf(S \ {i}, f)

Flag(b) == IF b THEN V(1) ELSE V(0)

\* The first SELECT of the dashboard, over the creators table.
CreatorStats(rows) ==
    [total_creators |-> V(Cardinality(DOMAIN rows)),
     live_creators |->
         SqlSum(SeqOf(DOMAIN rows, [i \in DOMAIN rows |-> Flag(rows[i].status = V("live"))])),
     featured_creators |->
         SqlSum(SeqOf(DOMAIN rows, [i \in DOMAIN rows |-> Flag(rows[i].is_featured = V(1))])),
     paid_members |->
         SqlSum(SeqOf(DOMAIN rows, [i \in DOMAIN rows |-> Flag(rows[i].is_paid_member = V(1))])),
     total_viewers |->
         SqlSum(SeqOf(DOMAIN rows, [i \in DOMAIN rows |-> rows[i].viewers]))]

\* The second SELECT of the dashboard, over the subscriptions table.
SubStats(subs) ==
    [total_subscriptions |-> V(Len(subs)),
     active_subscriptions |->
         SqlSum([i \in DOMAIN subs |-> Flag(subs[i].status = "active")]),
     monthly_revenue |->
         SqlSum([i \in DOMAIN subs |->
                    IF subs[i].status = "active" THEN subs[i].amount ELSE V(0)])]

\* datetime('now', '-7 days'), in ticks.
ActivityDays == 7

\* The third SELECT: the events of the last seven days, counted by type.
RecentActivity(events, t) ==
    LET recent == SelectSeq(events, LAMBDA e : e.timestamp > t - ActivityDays)
    IN  IF recent = <<>> THEN <<>>
        ELSE <<[event_type |-> "status_change", count |-> Len(recent)]>>

\* GET /api/analytics/dashboard
Dashboard(M) ==
    /\ nreq < MaxRequests
    /\ \E hdr \in M.headers[now] :
        LET g == Gate(hdr, FALSE)
        IN  \E dberr \in Menu(g, M.faults, FALSE) :
            LET r == [op |-> "dashboard", hdr |-> hdr, dberr |-> dberr]
            IN  IF g.code # 200 THEN Refused(r, g)
                ELSE IF dberr THEN Failed(r, 500, "Database error")
                ELSE /\ Served(r, 200, [creators |-> CreatorStats(creators),
                                        subscriptions |-> SubStats(subscriptions),
                                        recent_activity |-> RecentActivity(analytics, now)])
                     /\ UNCHANGED <<now, store, pending>>

\* --------------------------------------------------------------- settings
\* GET /api/settings
GetSettings(M) ==
    /\ nreq < MaxRequests
    /\ \E hdr \in M.headers[now] :
        LET g == Gate(hdr, TRUE)
        IN  \E dberr \in Menu(g, M.faults, FALSE) :
            LET r == [op |-> "getSettings", hdr |-> hdr, dberr |-> dberr]
            IN  IF g.code # 200 THEN Refused(r, g)
                ELSE IF dberr THEN Failed(r, 500, "Database error")
                ELSE /\ Served(r, 200, settingsObj(site_settings))
                     /\ UNCHANGED <<now, store, pending>>

\* The runs stmt.run queues for the entries, in order.
SettingsJob(entries) ==
    [i \in 1..Len(entries) |-> Stmt("setting", 0, entries[i])]

\* PUT /api/settings
PutSettings(M) ==
    /\ nreq < MaxRequests
    /\ \E hdr \in M.headers[now] :
        LET g == Gate(hdr, TRUE)
        IN  \E entries \in Menu(g, M.settings,
                                <<[key |-> "site_title",
                                   value |-> <<"str", "Psycheverse">>]>>) :
            LET r == [op |-> "putSettings", hdr |-> hdr, body |-> entries]
            IN  IF g.code # 200 THEN Refused(r, g)
                ELSE /\ pending' = IF entries = <<>> THEN pending
                                   ELSE Append(pending, SettingsJob(entries))
                     /\ Served(r, 200, [message |-> "Settings updated successfully"])
                     /\ UNCHANGED <<now, store>>

\* ------------------------------------------------------------------- Next
\* The server with the clients M.
Serve(M) ==
    \/ Tick
    \/ ExecPending
    \/ Login(M)
    \/ Verify(M)
    \/ ListCreators(M)
    \/ GetCreator(M)
    \/ CreateCreator(M)
    \/ UpdateCreator(M)
    \/ DeleteCreator(M)
    \/ SetStatus(M)
    \/ BulkStatus(M)
    \/ Subscriptions(M)
    \/ Dashboard(M)
    \/ GetSettings(M)
    \/ PutSettings(M)
    \/ ExportCreators(M)

NextAuth == Serve(AuthClients)
NextRegistry == Serve(RegistryClients)
NextStatus == Serve(StatusClients)
NextBulk == Serve(BulkClients)
NextSettings == Serve(SettingsClients)
NextBatch == Serve(BatchClients)
NextPaths == Serve(PathsClients)

SpecAuth == Init /\ [][NextAuth]_vars
SpecRegistry == Init /\ [][NextRegistry]_vars
SpecStatus == Init /\ [][NextStatus]_vars
SpecBulk == Init /\ [][NextBulk]_vars
SpecSettings == Init /\ [][NextSettings]_vars
SpecPaths == Init /\ [][NextPaths]_vars

\* The server around a batch.  Every statement handed to the database is
\* executed: the driver takes each queued run in turn and stmt.finalize()
\* waits for them.
SpecBatch == InitTwoCreators /\ [][NextBatch]_vars /\ WF_vars(ExecPending)

\* ------------------------------------------------------------- properties
\* The header carries a bearer token: a second, non-empty word.
Presented(hdr) == hdr.words >= 2 /\ hdr.token # NoToken
\* The token is signed with the server's secret and has not expired at t.
ValidAt(token, t) == token.sig = "JWT_SECRET" /\ t < token.exp
Bearer(token) == [words |-> 2, token |-> token]

\* A step that serves a request; req' and resp' are the request and its answer.
RequestStep == nreq' # nreq
\* A step that executes the first run of the queued job j.
RunStep(j) == nreq' = nreq /\ j \in 1..Len(pending) /\ pending' = Dequeued(j)

AdminRoutes ==
    {"create", "update", "delete", "status", "subscriptions", "getSettings",
     "putSettings", "export"}

\* C1: every route but the login is token-gated: without a bearer token the
\* answer is 401, with an invalid or expired one it is 403, and in both cases
\* no table changes and no statement is queued.
C1_TokenGated ==
    [][(RequestStep /\ req'.op # "login") =>
          /\ ~Presented(req'.hdr) =>
                 resp'.code = 401 /\ UNCHANGED <<store, pending>>
          /\ (Presented(req'.hdr) /\ ~ValidAt(req'.hdr.token, now)) =>
                 resp'.code = 403 /\ UNCHANGED <<store, pending>>]_vars

\* An expired token of the super_admin is refused a delete of an existing row.
C1_Witness ==
    /\ req.op = "delete"
    /\ req.hdr.token.sig = "JWT_SECRET"
    /\ req.hdr.token.role = "super_admin"
    /\ resp.code = 403
    /\ req.id \in DOMAIN creators

\* The request carries a valid token whose role is neither admin nor super_admin.
NonAdmin(hdr, t) ==
    /\ Presented(hdr)
    /\ ValidAt(hdr.token, t)
    /\ hdr.token.role \notin {"admin", "super_admin"}

\* Between two states only status, viewers, last_seen and updated_at of
\* existing creator rows differ.
OnlyStatusColumnsChange ==
    /\ UNCHANGED <<admin_users, lastID, subscriptions, analytics, site_settings>>
    /\ DOMAIN creators' = DOMAIN creators
    /\ \A i \in DOMAIN creators :
          \A c \in Cols \ {"status", "viewers", "last_seen", "updated_at"} :
              creators'[i][c] = creators[i][c]

\* C2: a caller whose valid token has a role outside {admin, super_admin} is
\* answered 403 on every admin route with nothing changed, changes nothing
\* through the other routes, and is accepted by bulk-status, which queues
\* only runs of the bulk statement; such a run changes nothing but status,
\* viewers, last_seen and updated_at of creator rows.
C2_NonAdminConfined ==
    [][/\ (RequestStep /\ req'.op # "login" /\ NonAdmin(req'.hdr, now)) =>
             /\ req'.op \in AdminRoutes =>
                    resp'.code = 403 /\ UNCHANGED <<store, pending>>
             /\ req'.op \notin AdminRoutes \cup {"bulk"} => UNCHANGED <<store, pending>>
             /\ req'.op = "bulk" =>
                    /\ resp'.code \notin {401, 403}
                    /\ UNCHANGED store
                    /\ \/ pending' = pending
                       \/ /\ Len(pending') = Len(pending) + 1
                          /\ SubSeq(pending', 1, Len(pending)) = pending
                          /\ \A k \in DOMAIN pending'[Len(pending')] :
                                 pending'[Len(pending')][k].k = "bulk"
       /\ \A j \in 1..Len(pending) :
             (RunStep(j) /\ Head(pending[j]).k = "bulk") => OnlyStatusColumnsChange]_vars

\* The polling agent's batch was accepted and its run has changed a row.
C2_Witness ==
    /\ req.op = "bulk"
    /\ req.hdr.token.role = "poller"
    /\ resp.code = 200
    /\ pending = <<>>
    /\ 1 \in DOMAIN creators
    /\ creators[1].viewers = V(5)

\* The users whose username or email and password the login body gives.
Credentialed(body) ==
    {u \in DOMAIN admin_users :
        /\ admin_users[u].username = body.username \/ admin_users[u].email = body.username
        /\ admin_users[u].password_hash = hashSync(body.password)}

\* C3: a login with a user's username or email and password (the store
\* answering) returns 200 with a token of that user's id, username and role
\* which the gate accepts, echoing it as the identity, at every time before
\* the token is one TokenTTL old and refuses from then on; the answer holds
\* the token and the fields id, username, email and role of the user and no
\* other.  A login with an unknown user or another password returns 401 and
\* no token.  The verify route echoes the token's payload.
C3_Login ==
    [][/\ (RequestStep /\ req'.op = "login" /\ ~req'.dberr) =>
             IF Credentialed(req'.body) # {}
             THEN /\ resp'.code = 200
                  /\ DOMAIN resp'.body = {"token", "user"}
                  /\ DOMAIN resp'.body.user = {"id", "username", "email", "role"}
                  /\ \E u \in Credentialed(req'.body) :
                        /\ resp'.body.user.id = u
                        /\ resp'.body.user.username = admin_users[u].username
                        /\ resp'.body.user.email = admin_users[u].email
                        /\ resp'.body.user.role = admin_users[u].role
                        /\ resp'.body.token.id = u
                        /\ resp'.body.token.username = admin_users[u].username
                        /\ resp'.body.token.role = admin_users[u].role
                  /\ \A t \in now..(now + TokenTTL - 1) :
                        authenticateToken(Bearer(resp'.body.token), t) =
                            [code |-> 200, error |-> "", user |-> resp'.body.token]
                  /\ authenticateToken(Bearer(resp'.body.token), now + TokenTTL).code = 403
             ELSE /\ resp'.code = 401
                  /\ DOMAIN resp'.body = {"error"}
                  /\ UNCHANGED <<store, pending>>
       /\ (RequestStep /\ req'.op = "verify" /\ Presented(req'.hdr)
           /\ ValidAt(req'.hdr.token, now)) =>
             /\ resp'.code = 200
             /\ resp'.body.user = req'.hdr.token]_vars

\* The polling agent has logged in with its email.
C3_Witness ==
    /\ req.op = "login"
    /\ req.body.username = "poller@psycheverse.org"
    /\ resp.code = 200
    /\ resp.body.token.role = "poller"

\* The request carries a valid token of an admin or a super_admin.
AdminCall(r, t) ==
    /\ Presented(r.hdr)
    /\ ValidAt(r.hdr.token, t)
    /\ r.hdr.token.role \in {"admin", "super_admin"}

\* The columns PUT /api/creators/:id can be asked to write, and those a
\* request r does ask for.
Updatable ==
    {"display_name", "description", "platforms", "status", "is_featured",
     "is_paid_member", "featured_priority", "viewers"}
Supplied(r) ==
    (DOMAIN r.body \cap Updatable) \cup (IF r.file # NoFile THEN {"avatar_url"} ELSE {})

\* Every table but creators, and the queue, are as they were.
OnlyCreatorsChange ==
    UNCHANGED <<admin_users, lastID, subscriptions, analytics, site_settings, pending>>
\* Every creator row but row id is as it was, and no row came or went.
OtherRowsKept(id) ==
    /\ DOMAIN creators' = DOMAIN creators
    /\ \A i \in DOMAIN creators \ {id} : creators'[i] = creators[i]

\* C4: an update by an admin that is answered 200 writes, in the row of its
\* id, each supplied column (platforms as text that is the supplied string or
\* parses back to the supplied value, avatar_url for a file) and updated_at,
\* and leaves every other column of that row, every other row and every other
\* table as they were; it is answered 200 whenever the row exists and the
\* store accepts the statement.  With no row of that id the answer is 404,
\* and whenever the answer is not 200 nothing changes.
C4_SparseUpdate ==
    [][(RequestStep /\ req'.op = "update" /\ AdminCall(req', now)) =>
          /\ OnlyCreatorsChange
          /\ OtherRowsKept(req'.id)
          /\ resp'.code # 200 => creators' = creators
          /\ resp'.code = 404 <=> (req'.id \notin DOMAIN creators /\ ~req'.dberr)
          /\ resp'.code = 200 <=>
                 /\ req'.id \in DOMAIN creators
                 /\ ~req'.dberr
                 /\ ~(Has(req'.body, "display_name") /\ req'.body.display_name = NULL)
          /\ resp'.code = 200 =>
                 \A c \in Cols :
                     LET old == creators[req'.id][c]
                         new == creators'[req'.id][c]
                     IN  IF c = "updated_at" THEN new = V(now)
                         ELSE IF c \notin Supplied(req') THEN new = old
                         ELSE IF c = "avatar_url" THEN new = V(UploadPath(req'.file, now))
                         ELSE IF c = "platforms"
                         THEN /\ new # NULL
                              /\ IF req'.body.platforms[1] = "str"
                                 THEN Val(new) = req'.body.platforms[2]
                                 ELSE JSONparse(Val(new)) = req'.body.platforms
                         ELSE new = req'.body[c]]_vars

\* An update with {status: "live"} alone, one tick after the rows were made,
\* has changed status and updated_at of its row, with a second row present.
C4_Witness ==
    /\ req.op = "update"
    /\ req.body = [status |-> V("live")]
    /\ req.file = NoFile
    /\ resp.code = 200
    /\ Cardinality(DOMAIN creators) = 2
    /\ creators[req.id].status = V("live")
    /\ creators[req.id].created_at = V(0)
    /\ creators[req.id].updated_at = V(1)

\* C5: a setStatus by an admin that the store executes on an existing row
\* sets status and stamps updated_at; last_seen is stamped when the status is
\* not "offline" and kept when it is; last_live_start is set to the supplied
\* live_start when the status is "live" and one was supplied, and kept
\* otherwise; viewers is set when supplied; every other column, row and
\* table is kept.
C5_SetStatus ==
    [][(RequestStep /\ req'.op = "status" /\ AdminCall(req', now)) =>
          /\ resp'.code = (IF req'.dberr THEN 500 ELSE 200)
          /\ UNCHANGED <<admin_users, lastID, subscriptions, analytics, site_settings>>
          /\ OtherRowsKept(req'.id)
          /\ resp'.code # 200 => creators' = creators
          /\ (resp'.code = 200 /\ req'.id \in DOMAIN creators) =>
                 LET old == creators[req'.id]
                     new == creators'[req'.id]
                     body == req'.body
                 IN  /\ new.status = body.status
                     /\ new.updated_at = V(now)
                     /\ new.last_seen =
                            IF body.status # V("offline") THEN V(now) ELSE old.last_seen
                     /\ new.last_live_start =
                            IF body.status = V("live") /\ Has(body, "live_start")
                            THEN body.live_start ELSE old.last_live_start
                     /\ new.viewers =
                            IF Has(body, "viewers") THEN body.viewers ELSE old.viewers
                     /\ \A c \in Cols \ {"status", "updated_at", "last_seen",
                                         "last_live_start", "viewers"} :
                            new[c] = old[c]]_vars

\* A row seen live at time 0 was set offline at time 1: last_seen is still 0.
C5_Witness ==
    /\ req.op = "status"
    /\ req.body.status = V("offline")
    /\ resp.code = 200
    /\ req.id \in DOMAIN creators
    /\ creators[req.id].last_seen = V(0)
    /\ creators[req.id].updated_at = V(1)

\* The request carries a valid token, of whatever role.
TokenCall(r, t) == Presented(r.hdr) /\ ValidAt(r.hdr.token, t)

\* C6: a bulk-status request with an array is answered 200 with count the
\* length of the array, changes no table, and queues one run of the prepared
\* statement per element, in order; a payload that is not an array is
\* answered 400 and changes nothing.  Each run that the store executes sets,
\* in the row of its element's id, status, viewers (0 when the element has
\* none), last_seen and updated_at and nothing else; a run whose id matches
\* no row, or that fails, changes nothing.
C6_Bulk ==
    [][/\ (RequestStep /\ req'.op = "bulk" /\ TokenCall(req', now)) =>
              IF IsArray(req'.updates)
              THEN /\ resp'.code = 200
                   /\ resp'.body.count = Len(req'.updates)
                   /\ UNCHANGED store
                   /\ IF req'.updates = <<>> THEN pending' = pending
                      ELSE /\ Len(pending') = Len(pending) + 1
                           /\ SubSeq(pending', 1, Len(pending)) = pending
                           /\ Len(pending'[Len(pending')]) = Len(req'.updates)
                           /\ \A i \in 1..Len(req'.updates) :
                                  LET run == pending'[Len(pending')][i]
                                  IN  /\ run.k = "bulk"
                                      /\ run.id = req'.updates[i].id
                                      /\ run.data = req'.updates[i]
              ELSE /\ resp'.code = 400
                   /\ UNCHANGED <<store, pending>>
       /\ \A j \in 1..Len(pending) :
              (RunStep(j) /\ Head(pending[j]).k = "bulk") =>
                  LET u == Head(pending[j]).data
                  IN  IF failedRun' \/ u.id \notin DOMAIN creators
                      THEN UNCHANGED store
                      ELSE /\ UNCHANGED <<admin_users, lastID, subscriptions,
                                          analytics, site_settings>>
                           /\ OtherRowsKept(u.id)
                           /\ creators'[u.id].status = u.status
                           /\ creators'[u.id].viewers =
                                  (IF Has(u, "viewers") /\ u.viewers # NULL
                                   THEN u.viewers ELSE V(0))
                           /\ creators'[u.id].last_seen = V(now)
                           /\ creators'[u.id].updated_at = V(now)
                           /\ \A c \in Cols \ {"status", "viewers", "last_seen",
                                               "updated_at"} :
                                  creators'[u.id][c] = creators[u.id][c]]_vars

\* The batch [{id 1, live, 5 viewers}, {id 999, live}] was answered count 2
\* and has run to the end: row 1 is live with 5 viewers, and there is no
\* row 999.
C6_Witness ==
    /\ req.op = "bulk"
    /\ resp.code = 200
    /\ req.updates = <<BulkItem(1), BulkItem(2)>>
    /\ resp.body.count = 2
    /\ pending = <<>>
    /\ DOMAIN creators = {1}
    /\ creators[1].status = V("live")
    /\ creators[1].viewers = V(5)
    /\ creators[1].last_seen = V(now)

\* C7: a delete by an admin that the store executes is answered 404 with
\* nothing changed when no row has the id, and otherwise 200 with exactly
\* that row removed and every other row and table, subscriptions and
\* analytics included, as they were; an id once issued and no longer a row
\* never becomes a row again, so that a later get or delete of it is
\* answered 404.
C7_Delete ==
    [][/\ (RequestStep /\ req'.op = "delete" /\ AdminCall(req', now)) =>
              /\ OnlyCreatorsChange
              /\ IF req'.dberr THEN resp'.code = 500 /\ creators' = creators
                 ELSE IF req'.id \notin DOMAIN creators
                 THEN resp'.code = 404 /\ creators' = creators
                 ELSE /\ resp'.code = 200
                      /\ DOMAIN creators' = DOMAIN creators \ {req'.id}
                      /\ \A i \in DOMAIN creators' : creators'[i] = creators[i]
       /\ \A i \in 1..lastID : i \notin DOMAIN creators => i \notin DOMAIN creators'
       /\ (/\ RequestStep
           /\ req'.op \in {"get", "delete"}
           /\ IF req'.op = "get" THEN TokenCall(req', now) ELSE AdminCall(req', now)
           /\ ~req'.dberr
           /\ req'.id \notin DOMAIN creators) => resp'.code = 404]_vars

\* A get of creator 1, whose row was deleted, is answered 404 while the
\* subscription of creator 1 is still in its table.
C7_Witness ==
    /\ req.op = "get"
    /\ req.id = 1
    /\ resp.code = 404
    /\ lastID >= 1
    /\ subscriptions = <<StripeRow>>
    /\ subscriptions[1].creator_id = V(1)

\* C8: whenever the dashboard is answered over a store with no creator, no
\* subscription and no event, each of the eight aggregates is 0 and the
\* recent-activity list is empty.
C8_DashboardZeros ==
    (/\ req.op = "dashboard"
     /\ resp.code = 200
     /\ DOMAIN creators = {}
     /\ subscriptions = <<>>
     /\ analytics = <<>>) =>
        /\ \A f \in {"total_creators", "live_creators", "featured_creators",
                     "paid_members", "total_viewers"} :
               resp.body.creators[f] = V(0)
        /\ \A f \in {"total_subscriptions", "active_subscriptions", "monthly_revenue"} :
               resp.body.subscriptions[f] = V(0)
        /\ resp.body.recent_activity = <<>>

\* C9: every stored platforms column is text that parses to an array, and
\* every row answered by get, list or export has an array as its platforms.
C9_PlatformsSequence ==
    /\ \A i \in DOMAIN creators :
           /\ creators[i].platforms # NULL
           /\ JSONparse(Val(creators[i].platforms))[1] = "arr"
    /\ (req.op = "get" /\ resp.code = 200) => resp.body.platforms[1] = "arr"
    /\ (req.op \in {"list", "export"} /\ resp.code = 200) =>
           \A k \in DOMAIN resp.body : resp.body[k].row.platforms[1] = "arr"

\* C10, as stated: every setStatus by an admin is answered 200 and issues
\* exactly one insertion of a status_change event for its id.
C10_EventAlways ==
    [][(RequestStep /\ req'.op = "status" /\ AdminCall(req', now)) =>
          /\ resp'.code = 200
          /\ Len(pending') = Len(pending) + 1
          /\ pending'[Len(pending')][1].k = "event"
          /\ pending'[Len(pending')][1].id = req'.id]_vars

\* C10, amended: a setStatus by an admin whose UPDATE the store executes,
\* whether or not a row has the id, is answered 200 and issues exactly one
\* insertion of a status_change event with creator_id the id and payload the
\* status and, when supplied, the viewers of the request; one whose UPDATE
\* fails is answered 500 and issues none.  The insertion runs after the
\* answer: it appends exactly that event, or nothing when it fails, and in
\* neither case changes the answer.
C10_EventOnSuccess ==
    [][/\ (RequestStep /\ req'.op = "status" /\ AdminCall(req', now)) =>
              /\ analytics' = analytics
              /\ IF req'.dberr
                 THEN resp'.code = 500 /\ pending' = pending
                 ELSE /\ resp'.code = 200
                      /\ Len(pending') = Len(pending) + 1
                      /\ SubSeq(pending', 1, Len(pending)) = pending
                      /\ Len(pending'[Len(pending')]) = 1
                      /\ LET ins == pending'[Len(pending')][1]
                         IN  /\ ins.k = "event"
                             /\ ins.id = req'.id
                             /\ ins.data.status = req'.body.status
                             /\ IF Has(req'.body, "viewers")
                                THEN /\ DOMAIN ins.data = {"status", "viewers"}
                                     /\ ins.data.viewers = req'.body.viewers
                                ELSE DOMAIN ins.data = {"status"}
       /\ \A j \in 1..Len(pending) :
              (RunStep(j) /\ Head(pending[j]).k = "event") =>
                  /\ UNCHANGED <<req, resp, admin_users, creators, lastID,
                                 subscriptions, site_settings>>
                  /\ analytics' =
                         IF failedRun' THEN analytics
                         ELSE Append(analytics,
                                     [event_type |-> "status_change",
                                      event_data |-> Head(pending[j]).data,
                                      creator_id |-> Head(pending[j]).id,
                                      timestamp |-> now])]_vars

\* A setStatus of id 999, which is no row, was answered 200 and its event,
\* with the supplied viewers, is in the analytics table.
C10_Witness ==
    /\ req.op = "status"
    /\ req.id = 999
    /\ resp.code = 200
    /\ 999 \notin DOMAIN creators
    /\ Len(analytics) = 1
    /\ analytics[1].creator_id = 999
    /\ analytics[1].event_type = "status_change"
    /\ "viewers" \in DOMAIN analytics[1].event_data

\* A step that executes run j of the queue, a run of the settings statement.
SettingRun(j) == RunStep(j) /\ Head(pending[j]).k = "setting"

\* A settings write by an admin is answered 200, changes no table and
\* queues one run of the prepared statement per entry of the body, in order.
PutQueuesRuns ==
    (RequestStep /\ req'.op = "putSettings" /\ AdminCall(req', now)) =>
        /\ resp'.code = 200
        /\ UNCHANGED store
        /\ IF req'.body = <<>> THEN pending' = pending
           ELSE /\ Len(pending') = Len(pending) + 1
                /\ SubSeq(pending', 1, Len(pending)) = pending
                /\ Len(pending'[Len(pending')]) = Len(req'.body)
                /\ \A i \in 1..Len(req'.body) :
                       /\ pending'[Len(pending')][i].k = "setting"
                       /\ pending'[Len(pending')][i].data = req'.body[i]

\* No key is ever removed, and only a run of the settings statement changes
\* the settings table.
SettingsKept ==
    /\ DOMAIN site_settings \subseteq DOMAIN site_settings'
    /\ (\A j \in 1..Len(pending) : ~SettingRun(j)) => site_settings' = site_settings

\* C11, as stated: each applied write of a settings body makes the map that
\* getAll answers the previous map overridden at that key by the supplied
\* value, every other key untouched.
C11_UpsertExact ==
    [][/\ PutQueuesRuns
       /\ SettingsKept
       /\ \A j \in 1..Len(pending) :
              (SettingRun(j) /\ ~failedRun') =>
                  settingsObj(site_settings') =
                      (Head(pending[j]).data.key :> Head(pending[j]).data.value)
                          @@ settingsObj(site_settings)]_vars

\* C11, amended: each applied write upserts its key and leaves every other
\* row as it was; the value getAll then answers for the key is the supplied
\* value when that is a string or null, the decimal text of a supplied
\* number, and "1" or "0" for a supplied boolean.  A write that fails changes
\* nothing.
C11_UpsertAsText ==
    [][/\ PutQueuesRuns
       /\ SettingsKept
       /\ \A j \in 1..Len(pending) :
              SettingRun(j) =>
                  LET key == Head(pending[j]).data.key
                      val == Head(pending[j]).data.value
                      got == settingsObj(site_settings')[key]
                  IN  IF failedRun' THEN UNCHANGED store
                      ELSE /\ UNCHANGED <<admin_users, creators, lastID,
                                          subscriptions, analytics>>
                           /\ DOMAIN site_settings' = DOMAIN site_settings \cup {key}
                           /\ \A k \in DOMAIN site_settings \ {key} :
                                  site_settings'[k] = site_settings[k]
                           /\ site_settings'[key].updated_at = now
                           /\ CASE val[1] = "str" -> got = val
                                [] val[1] = "null" -> got = <<"null">>
                                [] val[1] = "bool" ->
                                       got = <<"str", IF val[2] THEN "1" ELSE "0">>
                                [] val[1] = "num" ->
                                       got = <<"str", NumberText(val[2])>>]_vars

\* After a write of {featured_slots: 8, theme: "dark"} has been applied,
\* getAll answers the text "8", the new key theme, and the old site_title.
C11_Witness ==
    /\ req.op = "getSettings"
    /\ resp.code = 200
    /\ pending = <<>>
    /\ "theme" \in DOMAIN resp.body
    /\ resp.body.theme = <<"str", "dark">>
    /\ resp.body.featured_slots = <<"str", "8">>
    /\ resp.body.site_title = <<"str", "Psycheverse Admin">>
    /\ resp.body.max_free_listings = <<"str", "50">>

BatchElements == UNION {{p[i] : i \in DOMAIN p} : p \in BatchPayloads}

\* The update u is in the queue, not yet executed.
Queued(u) ==
    \E j \in 1..Len(pending) : \E i \in 1..Len(pending[j]) :
        pending[j][i].k = "bulk" /\ pending[j][i].data = u

\* In the table rows, the row that u names holds what u sets.
AppliedIn(rows, u) ==
    /\ u.id \in DOMAIN rows
    /\ rows[u.id].status = u.status
    /\ rows[u.id].viewers =
           (IF Has(u, "viewers") /\ u.viewers # NULL THEN u.viewers ELSE V(0))
Applied(u) == AppliedIn(creators, u)

\* C13, as stated: every update of a batch that is queued for an existing
\* creator is eventually applied.
C13_AllApplied ==
    \A u \in BatchElements : (Queued(u) /\ u.id \in DOMAIN creators) ~> Applied(u)

\* C13, amended: the answer to a batch is sent with no table changed and
\* every update of the batch queued; each later step executes one update
\* alone, touching no row but the one it names and applying it when the row
\* exists and the store does not fail the statement; and every queued update
\* is eventually executed.
C13_EachExecuted ==
    /\ [][/\ (RequestStep /\ req'.op = "bulk" /\ resp'.code = 200) =>
                 /\ UNCHANGED store
                 /\ \A i \in 1..Len(req'.updates) :
                        \E j \in 1..Len(pending') :
                            /\ i <= Len(pending'[j])
                            /\ pending'[j][i].k = "bulk"
                            /\ pending'[j][i].data = req'.updates[i]
          /\ \A j \in 1..Len(pending) :
                 (RunStep(j) /\ Head(pending[j]).k = "bulk") =>
                     LET u == Head(pending[j]).data
                     IN  /\ OtherRowsKept(u.id)
                         /\ (~failedRun' /\ u.id \in DOMAIN creators) =>
                                AppliedIn(creators', u)
                         /\ (failedRun' \/ u.id \notin DOMAIN creators) =>
                                UNCHANGED store]_vars
    /\ \A u \in BatchElements : Queued(u) ~> ~Queued(u)

\* A list issued after the answer to the batch [{1, live}, {2, live}] shows
\* creator 1 live and creator 2 still offline, the second update being in
\* the queue.
C13_Witness ==
    /\ req.op = "list"
    /\ resp.code = 200
    /\ Len(pending) = 1
    /\ Len(pending[1]) = 1
    /\ pending[1][1].k = "bulk"
    /\ pending[1][1].id = 2
    /\ \E a, b \in DOMAIN resp.body :
           /\ resp.body[a].id = 1
           /\ resp.body[a].row.status = V("live")
           /\ resp.body[a].row.viewers = V(5)
           /\ resp.body[b].id = 2
           /\ resp.body[b].row.status = V("offline")

\* C14: a setStatus that is answered 200 for an existing creator keeps the
\* stored viewers when its body has none and keeps last_seen when its status
\* is "offline"; an executed bulk update of an existing creator writes
\* viewers 0 when it has no viewers, or viewers 0 or null, and stamps
\* last_seen whatever its status, "offline" included.
C14_PathsDiffer ==
    [][/\ (/\ RequestStep
           /\ req'.op = "status"
           /\ resp'.code = 200
           /\ req'.id \in DOMAIN creators) =>
              /\ ~Has(req'.body, "viewers") =>
                     creators'[req'.id].viewers = creators[req'.id].viewers
              /\ req'.body.status = V("offline") =>
                     creators'[req'.id].last_seen = creators[req'.id].last_seen
       /\ \A j \in 1..Len(pending) :
              (/\ RunStep(j)
               /\ Head(pending[j]).k = "bulk"
               /\ ~failedRun'
               /\ Head(pending[j]).id \in DOMAIN creators) =>
                  LET u == Head(pending[j]).data
                  IN  /\ creators'[u.id].last_seen = V(now)
                      /\ (~Has(u, "viewers") \/ u.viewers \in {NULL, V(0)}) =>
                             creators'[u.id].viewers = V(0)
                      /\ (Has(u, "viewers") /\ u.viewers \notin {NULL, V(0)}) =>
                             creators'[u.id].viewers = u.viewers]_vars

\* Creator 1 was set live with 10 viewers by setStatus at time 0; a bulk
\* update {offline} with no viewers, executed at time 1, has left it with
\* viewers 0 and last_seen 1.
C14_Witness ==
    /\ req.op = "bulk"
    /\ req.updates = <<[id |-> 1, status |-> V("offline")]>>
    /\ resp.code = 200
    /\ pending = <<>>
    /\ now = 1
    /\ Len(analytics) = 1
    /\ analytics[1].creator_id = 1
    /\ analytics[1].timestamp = 0
    /\ "viewers" \in DOMAIN analytics[1].event_data
    /\ analytics[1].event_data.viewers = V(10)
    /\ 1 \in DOMAIN creators
    /\ creators[1].status = V("offline")
    /\ creators[1].viewers = V(0)
    /\ creators[1].last_seen = V(1)

====
